---- MODULE Spec2Model ----
(***************************************************************************)
(* Flow & Agent Execution Engine of vibeflows_ai.                          *)
(*                                                                         *)
(*   flow_runner.py            the executor (flow_runner, execute_node,    *)
(*                             execute_agent_node, run_flow_node)          *)
(*   agent_runner.py           the agent runtime (run_agent and helpers)   *)
(*   edge_condition_checker.py the edge router                             *)
(*                                                                         *)
(* The persistent store is MongoDB: db.flows and db.agents are read by the *)
(* engine, db.runs holds one document per run.  Server processes execute  *)
(* flow_runner invocations, each process holding a call stack of frames    *)
(* (a nested flow node calls flow_runner recursively).                     *)
(***************************************************************************)
EXTENDS Integers, Sequences, FiniteSets, TLC

(***************************************************************************)
(* Bounds of the model.                                                    *)
(***************************************************************************)
\* The number of top-level flow_runner calls made in one behaviour.
MaxInvocations == 2

(***************************************************************************)
(* Data: Python dicts over a fixed set of keys.  A key that is not in the  *)
(* dict maps to Missing.  Key score holds a score in tenths (5 is 0.5).     *)
(***************************************************************************)
Keys == {"x", "a", "b", "score"}
Missing == -1
EmptyDict == [k \in Keys |-> Missing]
D(x) == [EmptyDict EXCEPT !["x"] = x]

\* {**input_data, **node_params}: the merge with its operands swapped.
MergeParamsOverInput(node_params, input_data) ==
    [k \in Keys |-> IF node_params[k] # Missing THEN node_params[k] ELSE input_data[k]]

\* {**node_params, **input_data}: a key of input_data overrides node_params.
MergeInputOverParams(node_params, input_data) ==
    [k \in Keys |-> IF input_data[k] # Missing THEN input_data[k] ELSE node_params[k]]

(***************************************************************************)
(* db.agents.  A source fragment is what exec() does with it: the          *)
(* top-level definitions it binds, in order, and whether it raises after   *)
(* them (a syntax error binds nothing and raises).  A definition is the    *)
(* behaviour of the function it binds: "double" and "inc" read and write   *)
(* key x, "score" writes key score, "echo" returns its input, "raise"      *)
(* raises, "seq" calls the named siblings in order through the shared      *)
(* namespace, "module" is a function of agent_runner itself.               *)
(***************************************************************************)
Def(name, op, calls) == [name |-> name, op |-> op, calls |-> calls]
Fragment(defs, err) == [present |-> TRUE, defs |-> defs, err |-> err]
NoFragment == [present |-> FALSE, defs |-> <<>>, err |-> FALSE]
AgentNode(name, function, parameters) ==
    [name |-> name, function |-> function, parameters |-> parameters]
AgentSpec(name, nodes, function) ==
    [name |-> name, nodes |-> nodes, function |-> function]

Leaf(name, op) == Fragment(<<Def(name, op, <<>>)>>, FALSE)
Entry(name, calls) == Fragment(<<Def(name, "seq", calls)>>, FALSE)
SyntaxError == Fragment(<<>>, TRUE)

\* Ids that ObjectId() accepts and db.agents holds.
StoredAgentIds ==
    {"ag_dbl", "ag_inc", "ag_raise", "ag_badnode", "ag_badentry", "ag_nofn",
     "ag_misnamed", "ag_score"}
\* Ids that ObjectId() accepts: the stored ones and one that no document has.
ValidObjectIds == StoredAgentIds \cup {"ag_gone"}

Agents ==
    [id \in StoredAgentIds |->
        CASE id = "ag_dbl" ->
               AgentSpec("dbl", <<AgentNode("n_dbl", Leaf("n_dbl", "double"), EmptyDict)>>,
                         Entry("dbl", <<"n_dbl">>))
          [] id = "ag_inc" ->
               AgentSpec("inc", <<AgentNode("n_inc", Leaf("n_inc", "inc"), EmptyDict)>>,
                         Entry("inc", <<"n_inc">>))
          [] id = "ag_raise" ->
               AgentSpec("boom", <<AgentNode("n_inc", Leaf("n_inc", "inc"), EmptyDict),
                                   AgentNode("n_raise", Leaf("n_raise", "raise"), EmptyDict)>>,
                         Entry("boom", <<"n_inc", "n_raise">>))
          [] id = "ag_badnode" ->
               AgentSpec("dbl", <<AgentNode("n_dbl", SyntaxError, EmptyDict)>>,
                         Entry("dbl", <<"n_dbl">>))
          [] id = "ag_badentry" ->
               AgentSpec("dbl", <<AgentNode("n_dbl", Leaf("n_dbl", "double"), EmptyDict)>>,
                         SyntaxError)
          [] id = "ag_nofn" ->
               AgentSpec("dbl", <<AgentNode("n_dbl", Leaf("n_dbl", "double"), EmptyDict)>>,
                         NoFragment)
          [] id = "ag_misnamed" ->
               AgentSpec("dbl", <<AgentNode("n_dbl", Leaf("n_dbl", "double"), EmptyDict)>>,
                         Entry("pipeline", <<"n_dbl">>))
          [] id = "ag_score" ->
               AgentSpec("scorer",
                         <<AgentNode("n_score", Leaf("n_score", "score"), EmptyDict)>>,
                         Entry("scorer", <<"n_score">>))]

Names ==
    {"n_dbl", "n_inc", "n_raise", "n_score", "dbl", "inc", "boom", "pipeline", "scorer",
     "run_agent"}

(***************************************************************************)
(* The namespace (globals_dict): name -> callable or unbound.              *)
(***************************************************************************)
Unbound == [bound |-> FALSE, op |-> "", calls |-> <<>>, wrapped |-> FALSE, params |-> EmptyDict]
Callable(op, calls) ==
    [bound |-> TRUE, op |-> op, calls |-> calls, wrapped |-> FALSE, params |-> EmptyDict]

\* globals().copy(): the names of module agent_runner.
ModuleGlobals ==
    [n \in Names |-> IF n = "run_agent" THEN Callable("module", <<>>) ELSE Unbound]

\* ExecDefs with a name bound only if it is not bound yet: the first
\* definition of a name stays.
RECURSIVE ExecDefsKeepFirst(_, _)
ExecDefsKeepFirst(defs, g) ==
    IF defs = <<>> THEN g
    ELSE ExecDefsKeepFirst(Tail(defs),
            IF g[Head(defs).name].bound THEN g
            ELSE [g EXCEPT ![Head(defs).name] = Callable(Head(defs).op, Head(defs).calls)])

RECURSIVE ExecDefs(_, _)
ExecDefs(defs, g) ==
    IF defs = <<>> THEN g
    ELSE ExecDefs(Tail(defs),
                  [g EXCEPT ![Head(defs).name] = Callable(Head(defs).op, Head(defs).calls)])

\* exec(fragment, globals_dict): the namespace afterwards and whether it raised.
Exec(fragment, g) == [g |-> ExecDefs(fragment.defs, g), raised |-> fragment.err]

NodeParameters == [n \in Names |-> [has |-> FALSE, params |-> EmptyDict]]

\* The loop over agent_spec['nodes']: a node with a name and a function has
\* its parameters recorded and its fragment executed; a fragment that raises
\* ends in sys.exit(1).
RECURSIVE ExtractNodes(_, _, _)
ExtractNodes(nodes, g, np) ==
    IF nodes = <<>> THEN [exit |-> FALSE, g |-> g, np |-> np]
    ELSE LET node == Head(nodes) IN
         IF node.name # "" /\ node.function.present
         THEN LET np2 == [np EXCEPT ![node.name] = [has |-> TRUE, params |-> node.parameters]]
                  ex  == Exec(node.function, g)
              IN  IF ex.raised THEN [exit |-> TRUE, g |-> ex.g, np |-> np2]
                  ELSE ExtractNodes(Tail(nodes), ex.g, np2)
         ELSE ExtractNodes(Tail(nodes), g, np)

\* Node fragments first, then the agent's own fragment into the same namespace;
\* no agent fragment, or one that raises, ends in sys.exit(1).
extract_and_execute_functions(agent_spec, globals_dict) ==
    LET n == ExtractNodes(agent_spec.nodes, globals_dict, NodeParameters) IN
    IF n.exit THEN n
    ELSE IF agent_spec.function.present
         THEN LET ex == Exec(agent_spec.function, n.g)
              IN  [exit |-> ex.raised, g |-> ex.g, np |-> n.np]
         ELSE [exit |-> TRUE, g |-> n.g, np |-> n.np]

create_node_wrapper(original_function, node_params) ==
    [original_function EXCEPT !.wrapped = TRUE, !.params = node_params]

\* Every recorded node name that is bound in the namespace is rebound to its
\* wrapper.
wrap_node_functions(node_parameters, globals_dict) ==
    [n \in Names |->
        IF node_parameters[n].has /\ globals_dict[n].bound
        THEN create_node_wrapper(globals_dict[n], node_parameters[n].params)
        ELSE globals_dict[n]]

(***************************************************************************)
(* Calling a function of the namespace.  A sibling is looked up by name in *)
(* the namespace when the call happens.                                    *)
(***************************************************************************)
Returned(data) == [kind |-> "return", data |-> data, error |-> ""]
Raised(error) == [kind |-> "raise", data |-> EmptyDict, error |-> error]
SystemExit == [kind |-> "exit", data |-> EmptyDict, error |-> "SystemExit"]

RECURSIVE CallFn(_, _, _)
RECURSIVE CallSeq(_, _, _)
CallName(g, name, input_data) ==
    IF g[name].bound THEN CallFn(g, g[name], input_data)
    ELSE Raised("NameError")

CallSeq(g, calls, data) ==
    IF calls = <<>> THEN Returned(data)
    ELSE LET r == CallName(g, Head(calls), data) IN
         IF r.kind = "return" THEN CallSeq(g, Tail(calls), r.data) ELSE r

CallFn(g, fn, input_data) ==
    LET merged_input == IF fn.wrapped
                        THEN MergeInputOverParams(fn.params, input_data)
                        ELSE input_data
    IN  CASE fn.op = "double" ->
               IF merged_input["x"] = Missing THEN Raised("KeyError")
               ELSE Returned([merged_input EXCEPT !["x"] = 2 * @])
          [] fn.op = "inc" ->
               IF merged_input["x"] = Missing THEN Raised("KeyError")
               ELSE Returned([merged_input EXCEPT !["x"] = @ + 1])
          [] fn.op = "score" -> Returned([merged_input EXCEPT !["score"] = 5])
          [] fn.op = "echo" -> Returned(merged_input)
          [] fn.op = "seq" -> CallSeq(g, fn.calls, merged_input)
          [] fn.op = "raise" -> Raised("boom")
          [] OTHER -> Raised("TypeError")

\* load_agent_from_db: an id ObjectId() rejects, or an id no document has,
\* ends in sys.exit(1).
AgentLoadable(agent_id) == agent_id \in ValidObjectIds /\ agent_id \in StoredAgentIds

run_agent(agent_id, input_data) ==
    IF ~AgentLoadable(agent_id) THEN SystemExit
    ELSE LET agent_spec == Agents[agent_id]
             ex == extract_and_execute_functions(agent_spec, ModuleGlobals)
             globals_dict == wrap_node_functions(ex.np, ex.g)
         IN  IF ex.exit THEN SystemExit
             ELSE IF ~globals_dict[agent_spec.name].bound THEN SystemExit
             ELSE CallFn(globals_dict, globals_dict[agent_spec.name], input_data)

execute_agent_node(node, input_data) ==
    IF node.agent_id = "" THEN Raised("missing agent_id")
    ELSE run_agent(node.agent_id, input_data)

(***************************************************************************)
(* Edge router (edge_condition_checker.py).                                *)
(*                                                                         *)
(* An edge's condition is what edge.get("condition", "") yields: the       *)
(* default "" when the key is absent, None, a string, or a JSON boolean.   *)
(***************************************************************************)
CondAbsent == [kind |-> "absent", text |-> "", value |-> FALSE]
CondNone == [kind |-> "none", text |-> "", value |-> FALSE]
CondText(text) == [kind |-> "text", text |-> text, value |-> FALSE]
CondBool(value) == [kind |-> "bool", text |-> "", value |-> value]

\* Strings that str.strip() reduces to "".
BlankTexts == {"", " ", "  "}

\* What the language model answers (response.content[0].text), or "ERROR"
\* when the call raises (no key, network error, timeout, empty content).
OracleReplies == {"True", " false", "1", "[]", "maybe", "ERROR"}

\* response.content[0].text.strip().lower()
StripLower(text) ==
    CASE text = "True" -> "true"
      [] text = " false" -> "false"
      [] OTHER -> text

\* json.loads(result_text): whether it parses, and the truth value Python
\* gives the parsed value.
JsonLoads(text) ==
    CASE text = "1" -> [ok |-> TRUE, truthy |-> TRUE]
      [] text = "0" -> [ok |-> TRUE, truthy |-> FALSE]
      [] text = "\"yes\"" -> [ok |-> TRUE, truthy |-> TRUE]
      [] text = "[]" -> [ok |-> TRUE, truthy |-> FALSE]
      [] text = "true" -> [ok |-> TRUE, truthy |-> TRUE]
      [] text = "false" -> [ok |-> TRUE, truthy |-> FALSE]
      [] OTHER -> [ok |-> FALSE, truthy |-> FALSE]

\* check_edge_condition(condition, output_data) when the language model
\* answers `reply`: whether it raises, and the truth value of what it returns.
CondResult(raised, truthy) == [raised |-> raised, truthy |-> truthy]

\* Lines 18-19 and 39-51: client.messages.create is called for every
\* condition that is a string str.strip() does not reduce to "".
OracleCalled(condition) ==
    condition.kind = "text" /\ condition.text \notin BlankTexts

check_edge_condition(condition, reply) ==
    CASE condition.kind \in {"absent", "none"} -> CondResult(FALSE, TRUE)
      [] condition.kind = "bool" ->
           \* `not condition` for False; condition.strip() raises for True
           IF condition.value THEN CondResult(TRUE, FALSE) ELSE CondResult(FALSE, TRUE)
      [] OTHER ->
           IF condition.text \in BlankTexts THEN CondResult(FALSE, TRUE)
           ELSE IF reply = "ERROR" THEN CondResult(FALSE, FALSE)
           ELSE LET result_text == StripLower(reply) IN
                IF result_text = "true" THEN CondResult(FALSE, TRUE)
                ELSE IF result_text = "false" THEN CondResult(FALSE, FALSE)
                ELSE CondResult(FALSE, JsonLoads(result_text).ok /\ JsonLoads(result_text).truthy)

Edge(source, target, condition) ==
    [source |-> source, target |-> target, condition |-> condition]

\* [edge for edge in edges if edge.get("source") == current_node_id]
RECURSIVE ValidEdges(_, _)
ValidEdges(edges, current_node_id) ==
    IF edges = <<>> THEN <<>>
    ELSE IF Head(edges).source = current_node_id
         THEN <<Head(edges)>> \o ValidEdges(Tail(edges), current_node_id)
         ELSE ValidEdges(Tail(edges), current_node_id)

NoTarget == ""
Routed(target) == [raised |-> FALSE, target |-> target]
RouteRaised == [raised |-> TRUE, target |-> NoTarget]

\* FirstMatch with the loop not left at the first match: the last match wins.
RECURSIVE LastMatch(_, _, _)
LastMatch(valid_edges, replies, i) ==
    IF i > Len(valid_edges) THEN Routed(NoTarget)
    ELSE LET c == check_edge_condition(valid_edges[i].condition, replies[i])
             later == LastMatch(valid_edges, replies, i + 1)
         IN  IF c.raised THEN RouteRaised
             ELSE IF c.truthy /\ ~later.raised /\ later.target = NoTarget
                  THEN Routed(valid_edges[i].target)
             ELSE later

\* The loop over valid_edges; replies[i] answers the i-th valid edge.
RECURSIVE FirstMatch(_, _, _)
FirstMatch(valid_edges, replies, i) ==
    IF i > Len(valid_edges) THEN Routed(NoTarget)
    ELSE LET c == check_edge_condition(valid_edges[i].condition, replies[i]) IN
         IF c.raised THEN RouteRaised
         ELSE IF c.truthy THEN Routed(valid_edges[i].target)
         ELSE FirstMatch(valid_edges, replies, i + 1)

get_next_node_by_conditions(edges, current_node_id, replies) ==
    FirstMatch(ValidEdges(edges, current_node_id), replies, 1)

(***************************************************************************)
(* db.flows.  A node is [id, type, name, agent_id, flow_id] with "" for an *)
(* absent agent_id or flow_id; a flow has nodes, edges and optionally an   *)
(* entry_point.                                                            *)
(***************************************************************************)
AgentN(id, agent_id) ==
    [id |-> id, type |-> "agent", name |-> id, agent_id |-> agent_id, flow_id |-> ""]
FlowN(id, flow_id) ==
    [id |-> id, type |-> "flow", name |-> id, agent_id |-> "", flow_id |-> flow_id]
OtherN(id) ==
    [id |-> id, type |-> "function", name |-> id, agent_id |-> "", flow_id |-> ""]
Flow(nodes, edges) ==
    [nodes |-> nodes, edges |-> edges, has_entry_point |-> FALSE, entry_point |-> ""]
FlowFrom(entry_point, nodes, edges) ==
    [nodes |-> nodes, edges |-> edges, has_entry_point |-> TRUE, entry_point |-> entry_point]

StoredFlowIds ==
    {"f_lin", "f_cycle", "f_loop", "f_branch", "f_bool", "f_unres", "f_fail",
     "f_badload", "f_outer", "f_self", "f_empty", "f_dangling", "f_score"}
\* Flow ids a caller may pass: the stored ones and one that no document has.
FlowIds == StoredFlowIds \cup {"f_gone"}

Flows ==
    [id \in StoredFlowIds |->
        CASE id = "f_lin" ->
               Flow(<<AgentN("A", "ag_dbl"), AgentN("B", "ag_inc")>>,
                    <<Edge("A", "B", CondAbsent)>>)
          [] id = "f_cycle" ->
               Flow(<<OtherN("a"), OtherN("b")>>,
                    <<Edge("a", "b", CondText("")), Edge("b", "a", CondAbsent)>>)
          [] id = "f_loop" ->
               Flow(<<OtherN("n")>>, <<Edge("n", "n", CondText("again"))>>)
          [] id = "f_branch" ->
               FlowFrom("A",
                    <<OtherN("Z"), AgentN("A", "ag_dbl"), OtherN("B"), OtherN("C")>>,
                    <<Edge("B", "C", CondAbsent),
                      Edge("A", "B", CondText("output.x > 1")),
                      Edge("A", "C", CondText("output.x <= 1")),
                      Edge("A", "Z", CondText(" ")),
                      Edge("Z", "zz", CondAbsent)>>)
          [] id = "f_bool" ->
               Flow(<<OtherN("p"), OtherN("q"), OtherN("r")>>,
                    <<Edge("p", "q", CondBool(FALSE)), Edge("q", "r", CondBool(TRUE))>>)
          [] id = "f_unres" ->
               Flow(<<OtherN("p"), AgentN("u", "")>>, <<Edge("p", "u", CondNone)>>)
          [] id = "f_fail" ->
               Flow(<<AgentN("A", "ag_inc"), AgentN("R", "ag_raise"), OtherN("Z")>>,
                    <<Edge("A", "R", CondAbsent), Edge("R", "Z", CondAbsent)>>)
          [] id = "f_badload" ->
               Flow(<<OtherN("p1"), AgentN("L1", "ag_badnode"),
                      OtherN("p2"), AgentN("L2", "ag_badentry"),
                      OtherN("p3"), AgentN("L3", "ag_misnamed"),
                      OtherN("p4"), AgentN("L4", "ag_nofn"),
                      OtherN("p5"), AgentN("L5", "ag_gone"),
                      AgentN("L6", "not-an-object-id")>>,
                    <<Edge("p1", "L1", CondText("one")), Edge("p1", "p2", CondAbsent),
                      Edge("p2", "L2", CondText("two")), Edge("p2", "p3", CondAbsent),
                      Edge("p3", "L3", CondText("three")), Edge("p3", "p4", CondAbsent),
                      Edge("p4", "L4", CondText("four")), Edge("p4", "p5", CondAbsent),
                      Edge("p5", "L5", CondText("five")), Edge("p5", "L6", CondAbsent)>>)
          [] id = "f_outer" ->
               Flow(<<FlowN("m1", "f_lin"), FlowN("m2", "f_fail"), FlowN("m3", "f_gone"),
                      FlowN("m4", "")>>,
                    <<Edge("m1", "m2", CondAbsent), Edge("m2", "m3", CondText("go on")),
                      Edge("m2", "m4", CondAbsent)>>)
          [] id = "f_self" ->
               Flow(<<FlowN("s", "f_self"), OtherN("t")>>, <<Edge("s", "t", CondAbsent)>>)
          [] id = "f_empty" -> Flow(<<>>, <<>>)
          [] id = "f_dangling" ->
               FlowFrom("zz", <<OtherN("a"), OtherN("b")>>, <<Edge("a", "b", CondAbsent)>>)
          [] id = "f_score" ->
               Flow(<<AgentN("A", "ag_score"), OtherN("B"), OtherN("C")>>,
                    <<Edge("A", "B", CondText("score>=0.8")),
                      Edge("A", "C", CondText("score<0.8"))>>)]

\* input_data.get('input_data', {}) of the callers.
Inputs == {D(1)}

(***************************************************************************)
(* flow_runner, lines 30-51: the entry node.                               *)
(***************************************************************************)
TargetNodes(edges) == {edges[i].target : i \in 1..Len(edges)}

RECURSIVE FirstNotTargeted(_, _)
FirstNotTargeted(nodes, target_nodes) ==
    IF nodes = <<>> THEN ""
    ELSE IF Head(nodes).id \notin target_nodes THEN Head(nodes).id
    ELSE FirstNotTargeted(Tail(nodes), target_nodes)

EntryNode(flow) ==
    LET found == IF flow.has_entry_point THEN flow.entry_point
                 ELSE FirstNotTargeted(flow.nodes, TargetNodes(flow.edges))
    IN  IF found # "" THEN found
        ELSE IF flow.nodes # <<>> THEN flow.nodes[1].id ELSE ""

\* for node in nodes: if node['id'] == current_node_id: the first such node.
RECURSIVE FindNode(_, _)
FindNode(nodes, current_node_id) ==
    IF nodes = <<>> THEN [found |-> FALSE, node |-> OtherN("")]
    ELSE IF Head(nodes).id = current_node_id THEN [found |-> TRUE, node |-> Head(nodes)]
    ELSE FindNode(Tail(nodes), current_node_id)

max_iterations == 20

(***************************************************************************)
(* State.                                                                  *)
(***************************************************************************)
\* The server processes (an API worker, a script): each runs its flow_runner
\* calls one at a time, and they share the store.
Workers == {"w1", "w2"}

VARIABLES
    runs,     \* db.runs: run id -> document.  The document is built as
              \* {**flow, ...}, so it carries the flow's _id and insert_one
              \* stores it under that _id: the run id is the flow id.
    stack,    \* process -> call stack of flow_runner frames, innermost last
    result,   \* process -> how its last top-level flow_runner call ended
    proc,     \* process -> "alive", or "exited" once a SystemExit left its
              \* call stack
    ntop,     \* number of top-level flow_runner calls made so far
    invs,     \* history: one entry per flow_runner call, in call order
    audit,    \* history: run id -> who created and wrote the document, what
              \* the run executed and whether its invocation has ended
    route_in, \* router alone: the edge list, node and replies it is given
    route_out, \* router alone: what it returned for route_in
    call_args, \* one function alone: the arguments it is given
    call_result, \* one function alone: what it has returned so far
    pool      \* flow developer alone: its process pool and the jobs given to it,
              \* or the stored flow and the development passes made over it

vars == <<runs, stack, result, proc, ntop, invs, audit, route_in, route_out,
          call_args, call_result, pool>>

Terminal == {"completed", "failed", "timeout"}

NoRun ==
    [exists |-> FALSE, flow_id |-> "", input_data |-> EmptyDict, status |-> "",
     execution_log |-> <<>>, has_current_data |-> FALSE, current_data |-> EmptyDict,
     has_final_data |-> FALSE, final_data |-> EmptyDict, error |-> ""]

NoAudit ==
    [owner |-> 0, writers |-> {}, finalized |-> 0, executed |-> 0, ended |-> FALSE,
     load_failed |-> "", unmatched |-> 0]

NoRet == [kind |-> "none", status |-> "", has_final_data |-> FALSE,
          final_data |-> EmptyDict, error |-> ""]
\* return {'status': 'failed', 'error': ..., 'flow_id': ..., 'run_id': ..., 'last_node': ...}
RetFailed(error) == [kind |-> "return", status |-> "failed", has_final_data |-> FALSE,
                     final_data |-> EmptyDict, error |-> error]
\* return {'status': final_status, ..., 'final_data': current_data, 'iterations': ...}
RetFinal(status, data) == [kind |-> "return", status |-> status, has_final_data |-> TRUE,
                           final_data |-> data, error |-> ""]
RetRaise(error) == [kind |-> "raise", status |-> "", has_final_data |-> FALSE,
                    final_data |-> EmptyDict, error |-> error]
RetExit == [kind |-> "exit", status |-> "", has_final_data |-> FALSE,
            final_data |-> EmptyDict, error |-> "SystemExit"]

Frame(inv, flow_id, input_data) ==
    [inv |-> inv, flow_id |-> flow_id, user_input_data |-> input_data, pc |-> "create",
     run_id |-> "", current_node_id |-> "", current_data |-> EmptyDict,
     iteration |-> 0, ret |-> NoRet]

NoRouteIn == [edges |-> <<>>, node |-> "", replies |-> <<>>]
NoRouteOut == [done |-> FALSE, raised |-> FALSE, target |-> NoTarget]
NoCall == [fn |-> ""]
NoPool == [phase |-> "none"]

Init ==
    /\ runs = [r \in StoredFlowIds |-> NoRun]
    /\ stack = [t \in Workers |-> <<>>]
    /\ result = [t \in Workers |-> NoRet]
    /\ proc = [t \in Workers |-> "alive"]
    /\ ntop = 0
    /\ invs = <<>>
    /\ audit = [r \in StoredFlowIds |-> NoAudit]
    /\ route_in = NoRouteIn
    /\ route_out = NoRouteOut
    /\ call_args = NoCall
    /\ call_result = <<>>
    /\ pool = NoPool

Running(t) == proc[t] = "alive" /\ stack[t] # <<>>
Top(t) == stack[t][Len(stack[t])]
SetTop(t, frame) == [stack EXCEPT ![t][Len(stack[t])] = frame]
At(t, pc) == Running(t) /\ Top(t).pc = pc

\* The innermost frame ends with `ret` (a return value or an exception of
\* class Exception): the caller's frame receives it, or the process's caller.
Deliver(t, ret) ==
    LET rest == SubSeq(stack[t], 1, Len(stack[t]) - 1) IN
    IF rest = <<>>
    THEN /\ stack' = [stack EXCEPT ![t] = <<>>]
         /\ result' = [result EXCEPT ![t] = ret]
    ELSE /\ stack' = [stack EXCEPT ![t] = [rest EXCEPT ![Len(rest)].ret = ret]]
         /\ UNCHANGED result

RouterIdle == UNCHANGED <<route_in, route_out, call_args, call_result, pool>>

\* No flow_runner call is made or moves.
EngineIdle == UNCHANGED <<runs, stack, result, proc, ntop, invs, audit>>

(***************************************************************************)
(* flow_runner.                                                            *)
(***************************************************************************)
\* depth: the number of flow_runner calls on the call stack, this one included.
Called(flow_id, depth) ==
    [flow_id |-> flow_id, stage |-> "called", run_id |-> "", depth |-> depth]

\* A caller (an API handler, a script) calls flow_runner.  The processes are
\* interchangeable, so the first call is taken to be w1's.
Invoke(t) ==
    /\ proc[t] = "alive"
    /\ stack[t] = <<>>
    /\ ntop < MaxInvocations
    /\ ntop = 0 => t = "w1"
    /\ \E flow_id \in FlowIds, input_data \in Inputs :
          /\ stack' = [stack EXCEPT ![t] = <<Frame(Len(invs) + 1, flow_id, input_data)>>]
          /\ invs' = Append(invs, Called(flow_id, 1))
    /\ ntop' = ntop + 1
    /\ UNCHANGED <<runs, result, proc, audit>>
    /\ RouterIdle

\* Lines 13-18: db.flows.find_one finds nothing.
FlowNotFound(t) ==
    /\ At(t, "create")
    /\ Top(t).flow_id \notin StoredFlowIds
    /\ invs' = [invs EXCEPT ![Top(t).inv].stage = "not_found"]
    /\ Deliver(t, RetRaise("Flow not found"))
    /\ UNCHANGED <<runs, proc, ntop, audit>>
    /\ RouterIdle

\* The _id that insert_one stores run_record under: run_record = {**flow, ...}
\* carries the _id of the flow document.
RunIdFor(flow_id) == flow_id

\* Lines 20-28: the run document is inserted with status running.
InsertRun(t) ==
    /\ At(t, "create")
    /\ Top(t).flow_id \in StoredFlowIds
    /\ LET frame == Top(t)
           run_id == RunIdFor(frame.flow_id)
       IN  /\ ~runs[run_id].exists
           /\ runs' = [runs EXCEPT ![run_id] =
                         [NoRun EXCEPT !.exists = TRUE, !.flow_id = frame.flow_id,
                                       !.input_data = frame.user_input_data,
                                       !.status = "running"]]
           /\ audit' = [audit EXCEPT ![run_id].owner = frame.inv]
           /\ invs' = [invs EXCEPT ![frame.inv].stage = "inserted",
                                   ![frame.inv].run_id = run_id]
           /\ stack' = SetTop(t, [frame EXCEPT !.pc = "entry", !.run_id = run_id])
    /\ UNCHANGED <<result, proc, ntop>>
    /\ RouterIdle

\* Line 28: db.runs already holds a document with that _id, insert_one raises
\* DuplicateKeyError.
InsertDuplicate(t) ==
    /\ At(t, "create")
    /\ Top(t).flow_id \in StoredFlowIds
    /\ runs[RunIdFor(Top(t).flow_id)].exists
    /\ invs' = [invs EXCEPT ![Top(t).inv].stage = "duplicate"]
    /\ Deliver(t, RetRaise("DuplicateKeyError"))
    /\ UNCHANGED <<runs, proc, ntop, audit>>
    /\ RouterIdle

\* Lines 30-56: the entry node is found.
EntryFound(t) ==
    /\ At(t, "entry")
    /\ LET frame == Top(t)
           entry == EntryNode(Flows[frame.flow_id])
       IN  /\ entry # ""
           /\ stack' = SetTop(t, [frame EXCEPT !.pc = "loop", !.current_node_id = entry,
                                               !.current_data = frame.user_input_data,
                                               !.iteration = 0])
    /\ UNCHANGED <<runs, result, proc, ntop, invs, audit>>
    /\ RouterIdle

\* Lines 50-51: raise Exception('No entry point found in flow').
NoEntryPoint(t) ==
    /\ At(t, "entry")
    /\ EntryNode(Flows[Top(t).flow_id]) = ""
    /\ audit' = [audit EXCEPT ![Top(t).run_id].ended = TRUE]
    /\ Deliver(t, RetRaise("No entry point found in flow"))
    /\ UNCHANGED <<runs, proc, ntop, invs>>
    /\ RouterIdle

\* LoopCondition with <= for <: one step more than the bound.
LoopConditionInclusive(frame) ==
    frame.current_node_id # "" /\ frame.iteration <= max_iterations

\* Line 58: the while condition.
LoopCondition(frame) == frame.current_node_id # "" /\ frame.iteration < max_iterations

\* Line 58: the loop ends because the step bound is reached.
LoopExit(t) ==
    /\ At(t, "loop")
    /\ ~LoopCondition(Top(t))
    /\ stack' = SetTop(t, [Top(t) EXCEPT !.pc = "final"])
    /\ UNCHANGED <<runs, result, proc, ntop, invs, audit>>
    /\ RouterIdle

CurrentNode(frame) == FindNode(Flows[frame.flow_id].nodes, frame.current_node_id)

\* NodeNotFound with an exception raised in place of the break.
NodeNotFoundRaises(t) ==
    /\ At(t, "loop")
    /\ LoopCondition(Top(t))
    /\ ~CurrentNode(Top(t)).found
    /\ Deliver(t, RetRaise("Node not found"))
    /\ UNCHANGED <<runs, proc, ntop, invs, audit>>
    /\ RouterIdle

\* Lines 59-70: no node has the current id: break.
NodeNotFound(t) ==
    /\ At(t, "loop")
    /\ LoopCondition(Top(t))
    /\ ~CurrentNode(Top(t)).found
    /\ stack' = SetTop(t, [Top(t) EXCEPT !.pc = "final", !.iteration = @ + 1])
    /\ UNCHANGED <<runs, result, proc, ntop, invs, audit>>
    /\ RouterIdle

\* run_flow_node up to its call of flow_runner: the nested call to make.
CallFlow(flow_id) == [kind |-> "call", data |-> EmptyDict, error |-> flow_id]

run_flow_node(node, input_data) ==
    IF node.flow_id = "" THEN Raised("missing flow_id") ELSE CallFlow(node.flow_id)

execute_node(node, input_data) ==
    CASE node.type = "agent" -> execute_agent_node(node, input_data)
      [] node.type = "flow" -> run_flow_node(node, input_data)
      [] OTHER -> Returned(input_data)

\* Lines 77-87: current_data is reassigned before the entry is built, so the
\* entry's input_data is the node's output.
SuccessEntry(node, node_output, iteration) ==
    LET current_data == node_output IN
    [node_id |-> node.id, node_name |-> node.name, input_data |-> current_data,
     has_output |-> TRUE, output_data |-> node_output, error |-> "",
     status |-> "success", iteration |-> iteration]

\* Lines 102-109.
FailedEntry(node, current_data, error, iteration) ==
    [node_id |-> node.id, node_name |-> node.name, input_data |-> current_data,
     has_output |-> FALSE, output_data |-> EmptyDict, error |-> error,
     status |-> "failed", iteration |-> iteration]

\* StepSuccess with line 77 left out: the next node is given the data this
\* node was given.
StepSuccessKeepsInput(t, node, node_output, iteration) ==
    LET frame == Top(t) IN
    /\ runs' = [runs EXCEPT ![frame.run_id].execution_log =
                                Append(@, SuccessEntry(node, node_output, iteration)),
                            ![frame.run_id].has_current_data = TRUE,
                            ![frame.run_id].current_data = frame.current_data]
    /\ stack' = SetTop(t, [frame EXCEPT !.pc = "route", !.iteration = iteration,
                                        !.ret = NoRet])
    /\ UNCHANGED result

\* Lines 77-96: the step is logged and current_data saved; routing is next.
StepSuccess(t, node, node_output, iteration) ==
    LET frame == Top(t) IN
    /\ runs' = [runs EXCEPT ![frame.run_id].execution_log =
                                Append(@, SuccessEntry(node, node_output, iteration)),
                            ![frame.run_id].has_current_data = TRUE,
                            ![frame.run_id].current_data = node_output]
    /\ stack' = SetTop(t, [frame EXCEPT !.pc = "route", !.current_data = node_output,
                                        !.iteration = iteration, !.ret = NoRet])
    /\ UNCHANGED result

\* StepFailure without its return: the loop is left by falling through to the
\* final status update.
StepFailureFallsThrough(t, node, error, iteration) ==
    LET frame == Top(t) IN
    /\ runs' = [runs EXCEPT ![frame.run_id].execution_log =
                                Append(@, FailedEntry(node, frame.current_data, error, iteration)),
                            ![frame.run_id].status = "failed",
                            ![frame.run_id].error = error]
    /\ stack' = SetTop(t, [frame EXCEPT !.pc = "final", !.iteration = iteration,
                                        !.ret = NoRet])
    /\ UNCHANGED result

\* StepFailure without its return: the failed node's edges are routed.
StepFailureRoutesOn(t, node, error, iteration) ==
    LET frame == Top(t) IN
    /\ runs' = [runs EXCEPT ![frame.run_id].execution_log =
                                Append(@, FailedEntry(node, frame.current_data, error, iteration)),
                            ![frame.run_id].status = "failed",
                            ![frame.run_id].error = error]
    /\ stack' = SetTop(t, [frame EXCEPT !.pc = "route", !.iteration = iteration,
                                        !.ret = NoRet])
    /\ UNCHANGED result

\* Lines 98-125: the failed step is logged, the run marked failed, and
\* flow_runner returns.
StepFailure(t, node, error, iteration) ==
    LET frame == Top(t) IN
    /\ runs' = [runs EXCEPT ![frame.run_id].execution_log =
                                Append(@, FailedEntry(node, frame.current_data, error, iteration)),
                            ![frame.run_id].status = "failed",
                            ![frame.run_id].error = error]
    /\ Deliver(t, RetFailed(error))

Wrote(a, inv) == [a EXCEPT !.writers = @ \cup {inv}]
Finalized(a) == [a EXCEPT !.finalized = @ + 1, !.ended = TRUE]
Executed(a) == [a EXCEPT !.executed = @ + 1]

\* Lines 59-96, a node that is no nested flow and whose execution returns.
NodeSucceeds(t) ==
    /\ At(t, "loop")
    /\ LoopCondition(Top(t))
    /\ CurrentNode(Top(t)).found
    /\ LET frame == Top(t)
           node == CurrentNode(frame).node
           out == execute_node(node, frame.current_data)
       IN  /\ out.kind = "return"
           /\ StepSuccess(t, node, out.data, frame.iteration + 1)
           /\ audit' = [audit EXCEPT ![frame.run_id] = Wrote(Executed(@), frame.inv)]
    /\ UNCHANGED <<proc, ntop, invs>>
    /\ RouterIdle

\* Lines 59-76 and 98-125, a node whose execution raises an Exception.
NodeRaises(t) ==
    /\ At(t, "loop")
    /\ LoopCondition(Top(t))
    /\ CurrentNode(Top(t)).found
    /\ LET frame == Top(t)
           node == CurrentNode(frame).node
           out == execute_node(node, frame.current_data)
       IN  /\ out.kind = "raise"
           /\ StepFailure(t, node, out.error, frame.iteration + 1)
           /\ audit' = [audit EXCEPT ![frame.run_id] =
                           Wrote(Finalized(Executed(@)), frame.inv)]
    /\ UNCHANGED <<proc, ntop, invs>>
    /\ RouterIdle

\* Lines 59-76, an agent node whose load ends in sys.exit(1).  SystemExit is
\* no Exception: no except clause of flow_runner (line 98), of its callers
\* or of the nesting flow_runner frames catches it, so it leaves the whole
\* call stack and ends the process.
NodeExits(t) ==
    /\ At(t, "loop")
    /\ LoopCondition(Top(t))
    /\ CurrentNode(Top(t)).found
    /\ LET frame == Top(t)
           node == CurrentNode(frame).node
           out == execute_node(node, frame.current_data)
           unwound == {stack[t][i].run_id : i \in 1..Len(stack[t])}
       IN  /\ out.kind = "exit"
           /\ audit' = [r \in StoredFlowIds |->
                          IF r = frame.run_id
                          THEN [Executed(audit[r]) EXCEPT !.ended = TRUE,
                                                          !.load_failed = node.id]
                          ELSE IF r \in unwound THEN [audit[r] EXCEPT !.ended = TRUE]
                          ELSE audit[r]]
    /\ stack' = [stack EXCEPT ![t] = <<>>]
    /\ result' = [result EXCEPT ![t] = RetExit]
    /\ proc' = [proc EXCEPT ![t] = "exited"]
    /\ UNCHANGED <<runs, ntop, invs>>
    /\ RouterIdle

\* Lines 59-76 and 178-190: a flow node calls flow_runner on its flow.
NodeCallsFlow(t) ==
    /\ At(t, "loop")
    /\ LoopCondition(Top(t))
    /\ CurrentNode(Top(t)).found
    /\ LET frame == Top(t)
           node == CurrentNode(frame).node
           out == execute_node(node, frame.current_data)
       IN  /\ out.kind = "call"
           /\ stack' = [stack EXCEPT ![t] =
                          Append(SetTop(t, [frame EXCEPT !.pc = "await",
                                                         !.iteration = @ + 1])[t],
                                 Frame(Len(invs) + 1, node.flow_id, frame.current_data))]
           /\ invs' = Append(invs, Called(node.flow_id, Len(stack[t]) + 1))
           /\ audit' = [audit EXCEPT ![frame.run_id] = Executed(@)]
    /\ UNCHANGED <<runs, result, proc, ntop>>
    /\ RouterIdle

\* NestedReturns with a failed nested run raised into the parent's step.
NestedReturnsPropagates(t) ==
    /\ At(t, "await")
    /\ Top(t).ret.kind = "return"
    /\ LET frame == Top(t)
           node == CurrentNode(frame).node
       IN  IF frame.ret.status = "failed"
           THEN /\ StepFailure(t, node, frame.ret.error, frame.iteration)
                /\ audit' = [audit EXCEPT ![frame.run_id] = Wrote(Finalized(@), frame.inv)]
           ELSE /\ StepSuccess(t, node, frame.ret.final_data, frame.iteration)
                /\ audit' = [audit EXCEPT ![frame.run_id] = Wrote(@, frame.inv)]
    /\ UNCHANGED <<proc, ntop, invs>>
    /\ RouterIdle

\* Line 191 and lines 77-96: the nested flow_runner returned; the node's
\* output is result.get('final_data', input_data).
NestedReturns(t) ==
    /\ At(t, "await")
    /\ Top(t).ret.kind = "return"
    /\ LET frame == Top(t)
           node == CurrentNode(frame).node
           out == IF frame.ret.has_final_data THEN frame.ret.final_data
                  ELSE frame.current_data
       IN  /\ StepSuccess(t, node, out, frame.iteration)
           /\ audit' = [audit EXCEPT ![frame.run_id] = Wrote(@, frame.inv)]
    /\ UNCHANGED <<proc, ntop, invs>>
    /\ RouterIdle

\* Lines 98-125: the nested flow_runner raised an Exception.
NestedRaises(t) ==
    /\ At(t, "await")
    /\ Top(t).ret.kind = "raise"
    /\ LET frame == Top(t)
           node == CurrentNode(frame).node
       IN  /\ StepFailure(t, node, frame.ret.error, frame.iteration)
           /\ audit' = [audit EXCEPT ![frame.run_id] = Wrote(Finalized(@), frame.inv)]
    /\ UNCHANGED <<proc, ntop, invs>>
    /\ RouterIdle

\* The replies the language model may give while the edges leaving the
\* current node are evaluated.
RepliesFor(frame) ==
    [1..Len(ValidEdges(Flows[frame.flow_id].edges, frame.current_node_id)) -> OracleReplies]

NextNode(frame, replies) ==
    get_next_node_by_conditions(Flows[frame.flow_id].edges, frame.current_node_id, replies)

\* Lines 127-132: the router names the next node.
RouteNext(t) ==
    /\ At(t, "route")
    /\ \E replies \in RepliesFor(Top(t)) :
          LET next == NextNode(Top(t), replies) IN
          /\ ~next.raised
          /\ next.target # NoTarget
          /\ stack' = SetTop(t, [Top(t) EXCEPT !.pc = "loop",
                                               !.current_node_id = next.target])
    /\ UNCHANGED <<runs, result, proc, ntop, invs, audit>>
    /\ RouterIdle

\* Lines 127-135: the router names no node: break.
RouteNone(t) ==
    /\ At(t, "route")
    /\ \E replies \in RepliesFor(Top(t)) :
          LET next == NextNode(Top(t), replies) IN
          /\ ~next.raised
          /\ next.target = NoTarget
    /\ stack' = SetTop(t, [Top(t) EXCEPT !.pc = "final"])
    /\ audit' = [audit EXCEPT ![Top(t).run_id].unmatched = Top(t).iteration]
    /\ UNCHANGED <<runs, result, proc, ntop, invs>>
    /\ RouterIdle

\* Line 128 is outside the try block: an exception of the router leaves
\* flow_runner.
RouteRaises(t) ==
    /\ At(t, "route")
    /\ \E replies \in RepliesFor(Top(t)) : NextNode(Top(t), replies).raised
    /\ audit' = [audit EXCEPT ![Top(t).run_id].ended = TRUE]
    /\ Deliver(t, RetRaise("AttributeError"))
    /\ UNCHANGED <<runs, proc, ntop, invs>>
    /\ RouterIdle

\* Line 138.
FinalStatus(iteration) == IF iteration < max_iterations THEN "completed" ELSE "timeout"

\* Lines 137-150: the final status is written and flow_runner returns.
Finalize(t) ==
    /\ At(t, "final")
    /\ LET frame == Top(t)
           final_status == FinalStatus(frame.iteration)
       IN  /\ runs' = [runs EXCEPT ![frame.run_id].status = final_status,
                                   ![frame.run_id].has_final_data = TRUE,
                                   ![frame.run_id].final_data = frame.current_data]
           /\ audit' = [audit EXCEPT ![frame.run_id] = Wrote(Finalized(@), frame.inv)]
           /\ Deliver(t, RetFinal(final_status, frame.current_data))
    /\ UNCHANGED <<proc, ntop, invs>>
    /\ RouterIdle

Next ==
    \E t \in Workers :
        \/ Invoke(t)
        \/ FlowNotFound(t)
        \/ InsertRun(t)
        \/ InsertDuplicate(t)
        \/ EntryFound(t)
        \/ NoEntryPoint(t)
        \/ LoopExit(t)
        \/ NodeNotFound(t)
        \/ NodeSucceeds(t)
        \/ NodeRaises(t)
        \/ NodeExits(t)
        \/ NodeCallsFlow(t)
        \/ NestedReturns(t)
        \/ NestedRaises(t)
        \/ RouteNext(t)
        \/ RouteNone(t)
        \/ RouteRaises(t)
        \/ Finalize(t)

Spec == Init /\ [][Next]_vars

(***************************************************************************)
(* The router on its own: get_next_node_by_conditions applied to an edge   *)
(* list, a current node and the language model's replies.                  *)
(***************************************************************************)
MaxRouteEdges == 3

RouteEdges ==
    {Edge(source, target, condition) :
        source \in {"A", "B"}, target \in {"B", "C"},
        condition \in {CondAbsent, CondText("output.ok === true"), CondBool(TRUE)}}

RouteEdgeLists == UNION {[1..n -> RouteEdges] : n \in 0..MaxRouteEdges}

RouteInit ==
    /\ runs = [r \in StoredFlowIds |-> NoRun]
    /\ stack = [t \in Workers |-> <<>>]
    /\ result = [t \in Workers |-> NoRet]
    /\ proc = [t \in Workers |-> "alive"]
    /\ ntop = 0
    /\ invs = <<>>
    /\ audit = [r \in StoredFlowIds |-> NoAudit]
    /\ route_in \in [edges : RouteEdgeLists, node : {"A"},
                     replies : [1..MaxRouteEdges -> {"True", "maybe"}]]
    /\ route_out = NoRouteOut
    /\ call_args = NoCall
    /\ call_result = <<>>
    /\ pool = NoPool

RouteApply ==
    /\ ~route_out.done
    /\ LET next == get_next_node_by_conditions(route_in.edges, route_in.node,
                                               route_in.replies)
       IN  route_out' = [done |-> TRUE, raised |-> next.raised, target |-> next.target]
    /\ UNCHANGED <<route_in, call_args, call_result, pool>>
    /\ EngineIdle

RouteSpec == RouteInit /\ [][RouteApply]_vars

(***************************************************************************)
(* The router asked more than once about one edge list and one node: each  *)
(* evaluation makes its own calls of the language model,                   *)
(* client.messages.create, which is given no temperature and no seed and   *)
(* may fail, so each evaluation gets replies of its own.                   *)
(***************************************************************************)
MaxEvaluations == 2
MaxOracleEdges == 2

OracleEdges ==
    {Edge(source, target, condition) :
        source \in {"A", "B"}, target \in {"B", "C"},
        condition \in {CondAbsent, CondText("output.ok === true")}}

OracleEdgeLists == UNION {[1..n -> OracleEdges] : n \in 0..MaxOracleEdges}

OracleInit ==
    /\ runs = [r \in StoredFlowIds |-> NoRun]
    /\ stack = [t \in Workers |-> <<>>]
    /\ result = [t \in Workers |-> NoRet]
    /\ proc = [t \in Workers |-> "alive"]
    /\ ntop = 0
    /\ invs = <<>>
    /\ audit = [r \in StoredFlowIds |-> NoAudit]
    /\ route_in \in [edges : OracleEdgeLists, node : {"A"}, replies : {<<>>}]
    /\ route_out = NoRouteOut
    /\ call_args = NoCall
    /\ call_result = <<>>
    /\ pool = NoPool

\* One call of get_next_node_by_conditions(edges, current_node_id, output_data).
Evaluate ==
    /\ Len(call_result) < MaxEvaluations
    /\ \E replies \in [1..Len(ValidEdges(route_in.edges, route_in.node)) -> OracleReplies] :
          LET next == get_next_node_by_conditions(route_in.edges, route_in.node, replies)
              valid_edges == ValidEdges(route_in.edges, route_in.node)
              \* the edges the loop reached and called the language model for
              asked == {i \in 1..Len(valid_edges) :
                          /\ OracleCalled(valid_edges[i].condition)
                          /\ \A j \in 1..(i - 1) :
                                LET c == check_edge_condition(valid_edges[j].condition,
                                                              replies[j])
                                IN  ~c.raised /\ ~c.truthy}
          IN  call_result' = Append(call_result, [replies |-> replies, raised |-> next.raised,
                                                  target |-> next.target, asked |-> asked])
    /\ UNCHANGED <<route_in, route_out, call_args, pool>>
    /\ EngineIdle

OracleSpec == OracleInit /\ [][Evaluate]_vars

(***************************************************************************)
(* The entry node on its own: lines 30-51 of flow_runner applied to a flow *)
(* document.  entry_point "" stands for a value Python takes as false      *)
(* (None or the empty string) under a key that is present.                 *)
(***************************************************************************)
MaxEntryNodes == 2
MaxEntryEdges == 2

EntryNodeLists == UNION {[1..n -> {OtherN("a"), OtherN("b")}] : n \in 0..MaxEntryNodes}

EntryEdgeLists ==
    UNION {[1..n -> {Edge(source, target, CondAbsent) :
                        source \in {"a", "b"}, target \in {"a", "b"}}] :
           n \in 0..MaxEntryEdges}

EntryFlows ==
    {Flow(nodes, edges) : nodes \in EntryNodeLists, edges \in EntryEdgeLists}
    \cup {FlowFrom(entry_point, nodes, edges) :
             entry_point \in {"", "a", "b", "zz"},
             nodes \in EntryNodeLists, edges \in EntryEdgeLists}

\* Every variable but call_args is as in Init.
CallInit ==
    /\ runs = [r \in StoredFlowIds |-> NoRun]
    /\ stack = [t \in Workers |-> <<>>]
    /\ result = [t \in Workers |-> NoRet]
    /\ proc = [t \in Workers |-> "alive"]
    /\ ntop = 0
    /\ invs = <<>>
    /\ audit = [r \in StoredFlowIds |-> NoAudit]
    /\ route_in = NoRouteIn
    /\ route_out = NoRouteOut
    /\ call_result = <<>>
    /\ pool = NoPool

CallIdle == UNCHANGED <<route_in, route_out, call_args, pool>> /\ EngineIdle

EntryInit == CallInit /\ call_args \in [fn : {"entry"}, flow : EntryFlows]

EntryApply ==
    /\ call_result = <<>>
    /\ call_result' = <<EntryNode(call_args.flow)>>
    /\ CallIdle

EntrySpec == EntryInit /\ [][EntryApply]_vars

(***************************************************************************)
(* A wrapped node function on its own: create_node_wrapper(fn, params)     *)
(* called with input_data.                                                 *)
(***************************************************************************)
BindOps == {"echo", "double", "inc", "score", "raise"}

BindDicts ==
    {[EmptyDict EXCEPT !["x"] = x, !["a"] = a, !["b"] = b] :
        x \in {Missing, 1}, a \in {Missing, 1}, b \in {Missing, 2, 9}}

BindInit ==
    CallInit /\ call_args \in [fn : {"bind"}, op : BindOps, node_params : BindDicts,
                                input_data : BindDicts]

BindApply ==
    /\ call_result = <<>>
    /\ LET wrapper == create_node_wrapper(Callable(call_args.op, <<>>), call_args.node_params)
       IN  call_result' = <<CallFn(ModuleGlobals, wrapper, call_args.input_data)>>
    /\ CallIdle

BindSpec == BindInit /\ [][BindApply]_vars

(***************************************************************************)
(* Materialization on its own: extract_and_execute_functions applied to an *)
(* agent document and a copy of the module's namespace.                    *)
(***************************************************************************)
MaxSpecNodes == 2

SpecFragments ==
    {Leaf(name, op) : name \in {"n_dbl", "n_inc"}, op \in {"double", "inc", "echo"}}
    \cup {SyntaxError}

SpecNodes ==
    {AgentNode(name, function, EmptyDict) :
        name \in {"n_dbl", "n_inc"}, function \in SpecFragments}

SpecNodeLists == UNION {[1..n -> SpecNodes] : n \in 0..MaxSpecNodes}

AgentSpecs ==
    {AgentSpec("dbl", nodes, function) :
        nodes \in SpecNodeLists,
        function \in {Entry("dbl", <<"n_dbl">>), Leaf("n_dbl", "echo"), NoFragment}}

MaterializeInit == CallInit /\ call_args \in [fn : {"materialize"}, agent_spec : AgentSpecs]

MaterializeApply ==
    /\ call_result = <<>>
    /\ call_result' = <<extract_and_execute_functions(call_args.agent_spec, ModuleGlobals)>>
    /\ CallIdle

MaterializeSpec == MaterializeInit /\ [][MaterializeApply]_vars

(***************************************************************************)
(* Agent loads one after another in one process: lines 110-123 of          *)
(* run_agent.  call_args.module is the namespace of module agent_runner,   *)
(* call_result holds the globals_dict of every load made.                  *)
(***************************************************************************)
MaxLoads == 3

\* LoadRegistry with globals() used as it is, not copied: exec and the
\* wrapping write into the module's namespace.
LoadRegistryShared(module_globals, agent_id) ==
    LET ex == extract_and_execute_functions(Agents[agent_id], module_globals)
        globals_dict == wrap_node_functions(ex.np, ex.g)
    IN  [module |-> globals_dict, registry |-> globals_dict, exit |-> ex.exit]

\* globals_dict = globals().copy(); the fragments are executed and the nodes
\* wrapped in the copy.
LoadRegistry(module_globals, agent_id) ==
    LET ex == extract_and_execute_functions(Agents[agent_id], module_globals)
        globals_dict == wrap_node_functions(ex.np, ex.g)
    IN  [module |-> module_globals, registry |-> globals_dict, exit |-> ex.exit]

LoadInit == CallInit /\ call_args = [fn |-> "load", module |-> ModuleGlobals]

\* A load that ends in sys.exit(1) ends the process: no load follows it.
Load ==
    /\ Len(call_result) < MaxLoads
    /\ \A i \in 1..Len(call_result) : ~call_result[i].exit
    /\ \E agent_id \in StoredAgentIds :
          LET l == LoadRegistry(call_args.module, agent_id) IN
          /\ call_args' = [call_args EXCEPT !.module = l.module]
          /\ call_result' = Append(call_result, [agent_id |-> agent_id,
                                                  registry |-> l.registry, exit |-> l.exit])
    /\ UNCHANGED <<route_in, route_out, pool>>
    /\ EngineIdle

LoadSpec == LoadInit /\ [][Load]_vars

(***************************************************************************)
(* Flow developer (flow_developer.py): flow_developer_streaming and        *)
(* flow_developer_gemini hand the agent nodes that have no agent_id to a   *)
(* ProcessPoolExecutor.  A node is named by its position in flow['nodes']. *)
(* pool.queue holds the jobs submitted and not yet taken by a worker       *)
(* process, pool.running the jobs a worker process is executing.           *)
(***************************************************************************)
MaxDevNodes == 5

DevNodes == {AgentN("n", ""), AgentN("n", "ag_dbl"), OtherN("n")}

DevNodeLists == UNION {[1..n -> DevNodes] : n \in 0..MaxDevNodes}

\* mp.cpu_count() of the machines the developer runs on.
CpuCounts == {2, 8}

Min(S) == CHOOSE x \in S : \A y \in S : x <= y

\* [node for node in flow['nodes'] if node['type'] == 'agent' and not node.get('agent_id')]
RECURSIVE AgentNodesFrom(_, _)
AgentNodesFrom(nodes, i) ==
    IF i > Len(nodes) THEN <<>>
    ELSE IF nodes[i].type = "agent" /\ nodes[i].agent_id = ""
         THEN <<i>> \o AgentNodesFrom(nodes, i + 1)
         ELSE AgentNodesFrom(nodes, i + 1)

agent_nodes(nodes) == AgentNodesFrom(nodes, 1)

\* max_workers with the cap of 4 left out.
MaxWorkersUncapped(n, cpu_count) == Min({n, cpu_count})

\* max_workers = min(4, len(agent_nodes), mp.cpu_count())
max_workers(n, cpu_count) == Min({4, n, cpu_count})

DevInit ==
    /\ runs = [r \in StoredFlowIds |-> NoRun]
    /\ stack = [t \in Workers |-> <<>>]
    /\ result = [t \in Workers |-> NoRet]
    /\ proc = [t \in Workers |-> "alive"]
    /\ ntop = 0
    /\ invs = <<>>
    /\ audit = [r \in StoredFlowIds |-> NoAudit]
    /\ route_in = NoRouteIn
    /\ route_out = NoRouteOut
    /\ call_args = NoCall
    /\ call_result = <<>>
    /\ pool \in [phase : {"start"},
                  developer : {"flow_developer_streaming", "flow_developer_gemini"},
                  nodes : DevNodeLists, cpu_count : CpuCounts, max_workers : {0},
                  submitted : {<<>>}, queue : {<<>>}, running : {{}}, done : {{}}]

DevIdle == UNCHANGED <<route_in, route_out, call_args, call_result>> /\ EngineIdle

\* Lines 87-89: no agent node lacks an agent_id: nothing is submitted.
NoAgentNodes ==
    /\ pool.phase = "start"
    /\ agent_nodes(pool.nodes) = <<>>
    /\ pool' = [pool EXCEPT !.phase = "nothing"]
    /\ DevIdle

\* Lines 94-104: the pool is created with max_workers worker processes.
CreatePool ==
    /\ pool.phase = "start"
    /\ agent_nodes(pool.nodes) # <<>>
    /\ pool' = [pool EXCEPT !.phase = "submitting",
                            !.max_workers = max_workers(Len(agent_nodes(pool.nodes)),
                                                        pool.cpu_count)]
    /\ DevIdle

\* Lines 106-109: the next element of node_data_list is submitted.
SubmitJob ==
    /\ pool.phase = "submitting"
    /\ LET jobs == agent_nodes(pool.nodes)
           k == Len(pool.submitted) + 1
       IN  IF k <= Len(jobs)
           THEN pool' = [pool EXCEPT !.submitted = Append(@, jobs[k]),
                                     !.queue = Append(@, jobs[k])]
           ELSE pool' = [pool EXCEPT !.phase = "collecting"]
    /\ DevIdle

\* A worker process that is idle takes the oldest job of the queue and calls
\* create_agent_sync (create_agent_gemini_sync) on it.
WorkerStarts ==
    /\ pool.phase \in {"submitting", "collecting"}
    /\ pool.queue # <<>>
    /\ Cardinality(pool.running) < pool.max_workers
    /\ pool' = [pool EXCEPT !.queue = Tail(@), !.running = @ \cup {Head(pool.queue)}]
    /\ DevIdle

\* The authoring request of a job returns, with an agent or with an error.
WorkerFinishes ==
    /\ pool.phase \in {"submitting", "collecting"}
    /\ \E job \in pool.running :
          pool' = [pool EXCEPT !.running = @ \ {job}, !.done = @ \cup {job}]
    /\ DevIdle

\* The with block is left once every job has finished.
PoolShutdown ==
    /\ pool.phase = "collecting"
    /\ pool.queue = <<>>
    /\ pool.running = {}
    /\ pool' = [pool EXCEPT !.phase = "closed"]
    /\ DevIdle

DevNext ==
    \/ NoAgentNodes
    \/ CreatePool
    \/ SubmitJob
    \/ WorkerStarts
    \/ WorkerFinishes
    \/ PoolShutdown

DevSpec == DevInit /\ [][DevNext]_vars

(***************************************************************************)
(* Development passes (flow_developer.py).  A pass is one call of a        *)
(* developer function on the stored flow: it reads the flow document,      *)
(* asks for an agent for every agent node that has no agent_id, records    *)
(* the new agent_id in its own copy new_flow, and at the end replaces the  *)
(* stored document by that copy.  A node is named by its position in       *)
(* flow['nodes'] (node ids are taken to be unique).  flow_developer_gemini *)
(* has the shape of flow_developer_streaming.  The async generators run    *)
(* only while their consumer iterates: a consumer that stops leaves the    *)
(* generator suspended at its last yield.                                  *)
(***************************************************************************)
MaxPasses == 2
MaxPassNodes == 2

Developers ==
    {"flow_developer", "flow_developer_streaming", "flow_developer_claude4_sequential"}
Generators == Developers \ {"flow_developer"}

\* agent_developer returns the agent with the agent_id of the document it
\* inserted into db.agents, or raises.
agent_developer == {"agent", "raise"}
\* flow_developer_claude4_sequential imports agent_developer_claude4 from
\* agent_maker, which does not define it: it is taken to end the ways
\* agent_developer does.
agent_developer_claude4 == agent_developer

\* The flows a designer stores: no agent node has an agent_id yet.
PassNodeLists ==
    UNION {[1..n -> {AgentN("n", ""), OtherN("n")}] : n \in 1..MaxPassNodes}

NoPass ==
    [developer |-> "", pc |-> "idle", new_flow |-> <<>>, jobs |-> <<>>,
     agent_ids |-> <<>>, resolved |-> {}, failed |-> {}]

PassInit ==
    /\ runs = [r \in StoredFlowIds |-> NoRun]
    /\ stack = [t \in Workers |-> <<>>]
    /\ result = [t \in Workers |-> NoRet]
    /\ proc = [t \in Workers |-> "alive"]
    /\ ntop = 0
    /\ invs = <<>>
    /\ audit = [r \in StoredFlowIds |-> NoAudit]
    /\ route_in = NoRouteIn
    /\ route_out = NoRouteOut
    /\ call_args = NoCall
    /\ call_result = <<>>
    /\ pool \in [phase : {"passes"},
                  flow : [nodes : PassNodeLists, status : {"designed"},
                          agents_created_count : {Missing}],
                  agents : {<<>>}, passes : {[p \in 1..MaxPasses |-> NoPass]},
                  events : {<<>>}]

\* yield {..., "type": type, "node_id": node_id, "agent_id": agent_id}; the
\* plain function flow_developer yields nothing.
Yield(events, p, developer, type, node_id, agent_id) ==
    IF developer \in Generators
    THEN Append(events, [pass |-> p, type |-> type, node_id |-> node_id,
                         agent_id |-> agent_id])
    ELSE events

\* The jobs of a pass that have neither returned nor raised.
Pending(pass) ==
    {k \in 1..Len(pass.jobs) : pass.jobs[k] \notin pass.resolved \cup pass.failed}

\* The job whose authoring request ends next: the results of the pool come
\* in the order they complete, the loops take the nodes in order.
NextJobs(pass) ==
    IF pass.developer = "flow_developer_streaming"
    THEN {pass.jobs[k] : k \in Pending(pass)}
    ELSE {pass.jobs[k] : k \in {j \in Pending(pass) : \A h \in Pending(pass) : j <= h}}

\* flow = db.flows.find_one(...); new_flow = flow.copy(); agent_nodes = [...].
\* The generators return at once when there is no agent node to process.
StartPass(p, developer) ==
    /\ pool.phase = "passes"
    /\ pool.passes[p].pc = "idle"
    /\ p > 1 => pool.passes[p - 1].pc # "idle"
    /\ LET jobs == agent_nodes(pool.flow.nodes)
           nothing == developer \in Generators /\ jobs = <<>>
       IN  pool' = [pool EXCEPT
                       !.passes[p] = [NoPass EXCEPT
                                         !.developer = developer,
                                         !.pc = IF nothing THEN "returned" ELSE "working",
                                         !.new_flow = pool.flow,
                                         !.jobs = jobs],
                       !.events = IF nothing
                                  THEN Yield(@, p, developer, "info", 0, "")
                                  ELSE @]
    /\ DevIdle

\* The authoring request of a node returns: the agent is in db.agents, and
\* new_flow['nodes'][j]['agent_id'] = agent_id; agent_ids.append(agent_id).
AuthorSucceeds(p) ==
    /\ pool.phase = "passes"
    /\ pool.passes[p].pc = "working"
    /\ "agent" \in (IF pool.passes[p].developer = "flow_developer_claude4_sequential"
                    THEN agent_developer_claude4 ELSE agent_developer)
    /\ \E node \in NextJobs(pool.passes[p]) :
          LET agent_id == "agent" \o ToString(Len(pool.agents) + 1) IN
          pool' = [pool EXCEPT
                      !.agents = Append(@, [agent_id |-> agent_id, node |-> node, pass |-> p]),
                      !.passes[p].new_flow.nodes[node].agent_id = agent_id,
                      !.passes[p].agent_ids = Append(@, agent_id),
                      !.passes[p].resolved = @ \cup {node},
                      !.events = Yield(@, p, pool.passes[p].developer,
                                       "agent_complete", node, agent_id)]
    /\ DevIdle

\* The authoring request of a node raises.  The generators catch it and
\* yield an agent_error; flow_developer has no handler: the exception ends
\* the call before its replace_one.
AuthorFails(p) ==
    /\ pool.phase = "passes"
    /\ pool.passes[p].pc = "working"
    /\ "raise" \in (IF pool.passes[p].developer = "flow_developer_claude4_sequential"
                    THEN agent_developer_claude4 ELSE agent_developer)
    /\ \E node \in NextJobs(pool.passes[p]) :
          pool' = [pool EXCEPT
                      !.passes[p].failed = @ \cup {node},
                      !.passes[p].pc = IF pool.passes[p].developer \in Generators
                                       THEN @ ELSE "raised",
                      !.events = Yield(@, p, pool.passes[p].developer,
                                       "agent_error", node, "")]
    /\ DevIdle

\* The document written back with the successes dropped when a request failed.
WrittenBackAllOrNothing(flow, pass) ==
    [(IF pass.failed = {} THEN pass.new_flow ELSE flow) EXCEPT
        !.status = "developed",
        !.agents_created_count = Len(pass.agent_ids)]

\* new_flow['status'] = 'developed'
\* new_flow['agents_created_count'] = len(agent_ids)
WrittenBack(flow, pass) ==
    [pass.new_flow EXCEPT !.status = "developed",
                          !.agents_created_count = Len(pass.agent_ids)]

\* db.flows.replace_one({'_id': ObjectId(flow_id)}, new_flow), once every
\* node of agent_nodes has been gone through.
WriteBack(p) ==
    /\ pool.phase = "passes"
    /\ pool.passes[p].pc = "working"
    /\ Pending(pool.passes[p]) = {}
    /\ pool' = [pool EXCEPT
                   !.flow = WrittenBack(pool.flow, pool.passes[p]),
                   !.passes[p].pc = "written",
                   !.events = Yield(@, p, pool.passes[p].developer, "complete", 0, "")]
    /\ DevIdle

\* The consumer of a generator leaves its `async for` (a break, as in
\* quick_test and test_user_flow): the generator is not resumed.
ConsumerStops(p) ==
    /\ pool.phase = "passes"
    /\ pool.passes[p].pc = "working"
    /\ pool.passes[p].developer \in Generators
    /\ pool' = [pool EXCEPT !.passes[p].pc = "abandoned"]
    /\ DevIdle

PassNext ==
    \E p \in 1..MaxPasses :
        \/ \E developer \in Developers : StartPass(p, developer)
        \/ AuthorSucceeds(p)
        \/ AuthorFails(p)
        \/ WriteBack(p)
        \/ ConsumerStops(p)

PassSpec == PassInit /\ [][PassNext]_vars

(***************************************************************************)
(* Properties.                                                             *)
(***************************************************************************)
Log(r) == runs[r].execution_log

\* C1: every run document an invocation inserted has received exactly one
\* terminal status (completed, failed or timeout) by the time the invocation
\* has ended, by returning or by raising.
C1_FinalizedExactlyOnce ==
    \A r \in StoredFlowIds :
        (runs[r].exists /\ audit[r].ended) =>
            (audit[r].finalized = 1 /\ runs[r].status \in Terminal)

\* C2: a run document is created with status running, its status only moves
\* from running to completed, failed or timeout, and a terminal status is
\* never changed by a later write (a failed run never becomes completed or
\* timeout).
C2_TerminalAbsorbing ==
    [][\A r \in StoredFlowIds :
          /\ (~runs[r].exists /\ runs'[r].exists) => runs'[r].status = "running"
          /\ runs[r].exists =>
                /\ runs'[r].exists
                /\ runs[r].status \in {"running"} \cup Terminal
                /\ runs[r].status = "running" =>
                      runs'[r].status \in {"running"} \cup Terminal
                /\ runs[r].status \in Terminal => runs'[r].status = runs[r].status]_vars

\* A nested run ended failed and its parent went on to log the flow node.
C2_Witness ==
    /\ runs["f_fail"].status = "failed"
    /\ runs["f_outer"].exists
    /\ Len(Log("f_outer")) >= 2

\* C3: every flow_runner call on a stored flow creates a run document of its
\* own, with an id no other call's document has, and a document is written
\* only by the call that created it.
C3_OwnRecordPerInvocation ==
    /\ \A i \in 1..Len(invs) :
          /\ invs[i].stage # "duplicate"
          /\ \A j \in 1..Len(invs) :
                (i # j /\ invs[i].stage = "inserted" /\ invs[j].stage = "inserted")
                    => invs[i].run_id # invs[j].run_id
    /\ \A r \in StoredFlowIds : audit[r].writers \subseteq {audit[r].owner}

\* Every node has a first outgoing edge whose condition is empty or absent
\* and whose target is a node, and no node is an agent or a nested flow.
AlwaysTrueCycle(flow) ==
    /\ flow.nodes # <<>>
    /\ \A i \in 1..Len(flow.nodes) :
          LET node == flow.nodes[i]
              out == {j \in 1..Len(flow.edges) : flow.edges[j].source = node.id}
          IN  /\ node.type \notin {"agent", "flow"}
              /\ out # {}
              /\ LET first == flow.edges[CHOOSE j \in out : \A k \in out : j <= k] IN
                 /\ \/ first.condition.kind \in {"absent", "none"}
                    \/ first.condition.kind = "text" /\ first.condition.text \in BlankTexts
                 /\ \E k \in 1..Len(flow.nodes) : flow.nodes[k].id = first.target

\* C4: a run executes at most 20 node steps, and a run of an always-true
\* cycle ends with exactly 20 executed steps, all logged as success, and
\* status timeout.
C4_StepBound ==
    \A r \in StoredFlowIds :
        /\ audit[r].executed <= 20
        /\ Len(Log(r)) <= 20
        /\ (AlwaysTrueCycle(Flows[r]) /\ audit[r].ended) =>
              /\ runs[r].status = "timeout"
              /\ audit[r].executed = 20
              /\ Len(Log(r)) = 20
              /\ \A i \in 1..20 : Log(r)[i].status = "success" /\ Log(r)[i].iteration = i

C4_Witness ==
    /\ AlwaysTrueCycle(Flows["f_cycle"])
    /\ audit["f_cycle"].ended
    /\ runs["f_cycle"].status = "timeout"

\* C5: a run whose last step succeeded and whose router then named no next
\* node ends completed, at every step index up to the step bound.
C5_NoMatchCompletes ==
    \A r \in StoredFlowIds :
        (audit[r].unmatched > 0 /\ audit[r].finalized > 0) => runs[r].status = "completed"

UnresolvedAgent(flow) ==
    \E i \in 1..Len(flow.nodes) :
        flow.nodes[i].type = "agent" /\ flow.nodes[i].agent_id = ""

\* C6: a run of a flow with an agent node that has no agent_id executes no
\* node and writes no step log entry.
C6_UnresolvedRefused ==
    \A r \in StoredFlowIds :
        (runs[r].exists /\ UnresolvedAgent(Flows[r])) =>
            (audit[r].executed = 0 /\ Log(r) = <<>>)

\* C7: when the load of an agent node's agent fails, the run's log ends with
\* a failed entry for that node and the run's status is failed.
C7_LoadFailureIsNodeFailure ==
    \A r \in StoredFlowIds :
        audit[r].load_failed # "" =>
            /\ runs[r].status = "failed"
            /\ Log(r) # <<>>
            /\ Log(r)[Len(Log(r))].status = "failed"
            /\ Log(r)[Len(Log(r))].node_id = audit[r].load_failed

IsPrefix(a, b) == Len(a) <= Len(b) /\ SubSeq(b, 1, Len(a)) = a

C9_FailureContained ==
    /\ \A w \in Workers : proc[w] = "alive"
    /\ \A r \in StoredFlowIds : \A i \in audit[r].writers : i = audit[r].owner

\* The edges of route_in that leave the current node and whose condition is
\* true under the reply given to them: the reply of the n-th edge that leaves
\* the current node is replies[n].
RouteMatches ==
    LET e == route_in.edges
        leaving(i) == e[i].source = route_in.node
        nth(i) == Cardinality({j \in 1..i : leaving(j)})
    IN  {i \in 1..Len(e) :
            /\ leaving(i)
            /\ ~check_edge_condition(e[i].condition, route_in.replies[nth(i)]).raised
            /\ check_edge_condition(e[i].condition, route_in.replies[nth(i)]).truthy}

\* C10: the router returns the target of the first edge, in declared order,
\* that leaves the current node and whose condition is true, and returns no
\* target exactly when there is no such edge.
C10_FirstMatchWins ==
    (route_out.done /\ ~route_out.raised) =>
        IF RouteMatches = {} THEN route_out.target = NoTarget
        ELSE route_out.target =
                route_in.edges[CHOOSE i \in RouteMatches : \A j \in RouteMatches : i <= j].target

\* A false edge is passed over, and of the two true edges after it the
\* earlier one is returned.
C10_Witness ==
    /\ route_out.done /\ ~route_out.raised
    /\ Len(route_in.edges) = 3
    /\ route_in.edges[1] = Edge("A", "B", CondText("output.ok === true"))
    /\ route_in.replies[1] = "maybe"
    /\ route_in.edges[2] = Edge("A", "C", CondAbsent)
    /\ route_in.edges[3] = Edge("A", "B", CondAbsent)
    /\ route_out.target = "C"

\* C11: any two evaluations of the router for the same edge list, current
\* node and node output return the same target, or both return no target.
C11_RoutingDeterministic ==
    \A i, j \in 1..Len(call_result) :
        /\ call_result[i].raised = call_result[j].raised
        /\ call_result[i].target = call_result[j].target

\* C13: the router returns a target or no target and never raises, whatever
\* the conditions of the edges are.
C13_RouteNeverRaises == route_out.done => ~route_out.raised

\* C14: an edge with a condition is followed only when the reply to it is
\* the boolean true: a target the router returns is the target of an edge
\* that leaves the current node and either has no condition or was answered
\* true.
C14_NonBooleanReplyIsFalse ==
    \A i \in 1..Len(call_result) :
        LET valid_edges == ValidEdges(route_in.edges, route_in.node)
            e == call_result[i]
        IN  (~e.raised /\ e.target # NoTarget) =>
                \E k \in 1..Len(valid_edges) :
                    /\ valid_edges[k].target = e.target
                    /\ \/ valid_edges[k].condition.kind \in {"absent", "none"}
                       \/ valid_edges[k].condition.kind = "text"
                            /\ valid_edges[k].condition.text \in BlankTexts
                       \/ e.replies[k] \in {"True", "true", " true", "TRUE"}

\* C12: in the flow with edges A->B on score>=0.8 and A->C on score<0.8, in
\* that order, where A's output has score 0.5, no run visits B and every run
\* that has ended visited C directly after A.
C12_BranchVisitsCOnly ==
    LET log == Log("f_score") IN
    /\ \A i \in 1..Len(log) : log[i].node_id # "B"
    /\ (audit["f_score"].ended /\ Len(log) >= 1
            /\ log[1].node_id = "A" /\ log[1].status = "success"
            /\ log[1].output_data["score"] = 5) =>
          (Len(log) >= 2 /\ log[2].node_id = "C")

\* The first node of the list that is the target of no edge, "" if every node
\* is the target of an edge.
NoIncoming(flow) ==
    LET free == {i \in 1..Len(flow.nodes) :
                    \A j \in 1..Len(flow.edges) : flow.edges[j].target # flow.nodes[i].id}
    IN  IF free = {} THEN ""
        ELSE flow.nodes[CHOOSE i \in free : \A k \in free : i <= k].id

\* C15: the entry node is the entry point the flow gives; when it gives none,
\* the node that has no incoming edge; and only when every node has an
\* incoming edge, the first node of the node list.
C15_EntryPrecedence ==
    (call_args.fn = "entry" /\ call_result # <<>>) =>
        LET flow == call_args.flow IN
        call_result[1] =
            IF flow.has_entry_point /\ flow.entry_point # "" THEN flow.entry_point
            ELSE IF NoIncoming(flow) # "" THEN NoIncoming(flow)
            ELSE IF flow.nodes # <<>> THEN flow.nodes[1].id
            ELSE ""

\* The output of the last step of run r, the input snapshot if it has none.
LastOutput(r) ==
    IF Log(r) = <<>> THEN runs[r].input_data ELSE Log(r)[Len(Log(r))].output_data

\* C16: a flow_runner call that goes on after its last logged step holds the
\* output of that step (the input snapshot before the first step) as the
\* data the next node is given; a passthrough node's output is the data it
\* was given; final_data is the output of the last successful step; and the
\* flow A (doubles x) -> B (adds 1) run on x = 1 ends completed after exactly
\* 2 steps with final_data x = 3.
C16_Sequential ==
    /\ \A t \in Workers : \A i \in 1..Len(stack[t]) :
          LET frame == stack[t][i] IN
          frame.pc \in {"loop", "await", "route", "final"} =>
              frame.current_data = LastOutput(frame.run_id)
    /\ \A r \in StoredFlowIds : \A i \in 1..Len(Log(r)) :
          (/\ Log(r)[i].status = "success"
           /\ FindNode(Flows[r].nodes, Log(r)[i].node_id).node.type \notin {"agent", "flow"}) =>
              Log(r)[i].output_data =
                  IF i = 1 THEN runs[r].input_data ELSE Log(r)[i - 1].output_data
    /\ \A r \in StoredFlowIds :
          runs[r].has_final_data =>
              /\ runs[r].final_data = LastOutput(r)
              /\ \A i \in 1..Len(Log(r)) : Log(r)[i].status = "success"
    /\ (audit["f_lin"].ended /\ runs["f_lin"].input_data["x"] = 1) =>
          /\ runs["f_lin"].status = "completed"
          /\ Len(Log("f_lin")) = 2
          /\ Log("f_lin")[1].node_id = "A" /\ Log("f_lin")[1].output_data["x"] = 2
          /\ Log("f_lin")[2].node_id = "B" /\ Log("f_lin")[2].output_data["x"] = 3
          /\ runs["f_lin"].has_final_data
          /\ runs["f_lin"].final_data["x"] = 3

\* The run of A -> B on x = 1 has ended.
C16_Witness ==
    /\ audit["f_lin"].ended
    /\ runs["f_lin"].input_data["x"] = 1
    /\ runs["f_lin"].final_data["x"] = 3
    /\ Len(Log("f_lin")) = 2

\* merge(P, D): every key of D, and the keys of P that D does not have.
MergedPD(static, dynamic) ==
    [k \in Keys |-> IF dynamic[k] = Missing THEN static[k] ELSE dynamic[k]]

\* C17: a node function bound to parameters P and called with input D
\* returns what the function itself returns for merge(P, D); bound to
\* {a: 1, b: 2} and called with {b: 9}, it is given {a: 1, b: 9}.
C17_ParameterOverride ==
    (call_args.fn = "bind" /\ call_result # <<>>) =>
        /\ call_result[1] =
               CallFn(ModuleGlobals, Callable(call_args.op, <<>>),
                      MergedPD(call_args.node_params, call_args.input_data))
        /\ (/\ call_args.op = "echo"
            /\ call_args.node_params = [EmptyDict EXCEPT !["a"] = 1, !["b"] = 2]
            /\ call_args.input_data = [EmptyDict EXCEPT !["b"] = 9]) =>
               call_result[1] = Returned([EmptyDict EXCEPT !["a"] = 1, !["b"] = 9])

\* bind(fn, {a: 1, b: 2}) has been called with {b: 9}.
C17_Witness ==
    /\ call_args.fn = "bind"
    /\ call_args.op = "echo"
    /\ call_args.node_params = [EmptyDict EXCEPT !["a"] = 1, !["b"] = 2]
    /\ call_args.input_data = [EmptyDict EXCEPT !["b"] = 9]
    /\ call_result = <<Returned([EmptyDict EXCEPT !["a"] = 1, !["b"] = 9])>>

\* The definitions of the fragments of an agent document in the order they
\* are materialized: the nodes' fragments, then the agent's own.
RECURSIVE NodeDefs(_)
NodeDefs(nodes) ==
    IF nodes = <<>> THEN <<>>
    ELSE (IF Head(nodes).name # "" /\ Head(nodes).function.present
          THEN Head(nodes).function.defs ELSE <<>>) \o NodeDefs(Tail(nodes))

\* C18: after the fragments of an agent have been materialized into one
\* registry, a name that several fragments define is bound to the last
\* version materialized, calling it runs that version, and a name no
\* fragment defines is as it was.
C18_LastDefinitionWins ==
    (call_args.fn = "materialize" /\ call_result # <<>> /\ ~call_result[1].exit) =>
        LET defs == NodeDefs(call_args.agent_spec.nodes) \o call_args.agent_spec.function.defs
            g == call_result[1].g
        IN  \A n \in Names :
                LET at == {i \in 1..Len(defs) : defs[i].name = n} IN
                IF at = {} THEN g[n] = ModuleGlobals[n]
                ELSE LET last == defs[CHOOSE i \in at : \A k \in at : k <= i] IN
                     /\ g[n].bound
                     /\ g[n].op = last.op
                     /\ CallName(g, n, D(3)) = CallFn(g, Callable(last.op, last.calls), D(3))

\* n_dbl was materialized as "double" and then as "inc": calling it adds 1.
C18_Witness ==
    /\ call_args.fn = "materialize"
    /\ call_result # <<>>
    /\ Len(call_args.agent_spec.nodes) = 2
    /\ call_args.agent_spec.nodes[1].function = Leaf("n_dbl", "double")
    /\ call_args.agent_spec.nodes[2].function = Leaf("n_dbl", "inc")
    /\ call_args.agent_spec.function = Entry("dbl", <<"n_dbl">>)
    /\ ~call_result[1].exit
    /\ CallName(call_result[1].g, "n_dbl", D(3)) = Returned(D(4))

\* The names the fragments of an agent document define.
DefinedBy(agent_spec) ==
    LET defs == NodeDefs(agent_spec.nodes) \o agent_spec.function.defs
    IN  {defs[i].name : i \in 1..Len(defs)}

\* C19: a load leaves the namespace of the engine's module as it was, and
\* the registry of a load holds, besides the module's own names, only names
\* that the fragments of the agent of that load define; only that agent's
\* nodes are wrapped in it.
C19_RegistryPerLoad ==
    call_args.fn = "load" =>
        /\ call_args.module = ModuleGlobals
        /\ \A i \in 1..Len(call_result) : \A n \in Names :
              LET registry == call_result[i].registry
                  agent_spec == Agents[call_result[i].agent_id]
              IN  /\ registry[n].bound =>
                        (ModuleGlobals[n].bound \/ n \in DefinedBy(agent_spec))
                  /\ registry[n].wrapped =>
                        \E k \in 1..Len(agent_spec.nodes) : agent_spec.nodes[k].name = n
                  /\ n \notin DefinedBy(agent_spec) => registry[n] = ModuleGlobals[n]

\* ag_dbl was loaded, then ag_inc: the second registry has inc and n_inc and
\* neither dbl nor n_dbl.
C19_Witness ==
    /\ call_args.fn = "load"
    /\ Len(call_result) >= 2
    /\ call_result[1].agent_id = "ag_dbl"
    /\ call_result[1].registry["n_dbl"].wrapped
    /\ call_result[2].agent_id = "ag_inc"
    /\ call_result[2].registry["inc"].bound
    /\ call_result[2].registry["n_inc"].wrapped
    /\ ~call_result[2].registry["dbl"].bound
    /\ ~call_result[2].registry["n_dbl"].bound

\* The positions of the agent nodes of the flow that have no agent_id.
Unresolved == {i \in 1..Len(pool.nodes) :
                  pool.nodes[i].type = "agent" /\ pool.nodes[i].agent_id = ""}

\* C20: at most 4 authoring requests are in flight at any instant, no node
\* is submitted twice, only agent nodes without agent_id are submitted, and
\* once submission is over every such node has been submitted.
C20_BoundedResolution ==
    /\ Cardinality(pool.running) <= 4
    /\ \A i, j \in 1..Len(pool.submitted) :
          i # j => pool.submitted[i] # pool.submitted[j]
    /\ \A i \in 1..Len(pool.submitted) : pool.submitted[i] \in Unresolved
    /\ pool.phase \in {"collecting", "closed"} =>
          {pool.submitted[i] : i \in 1..Len(pool.submitted)} = Unresolved
    /\ pool.phase = "nothing" => Unresolved = {}
    /\ pool.phase = "closed" => pool.done = Unresolved

\* Five nodes are unresolved on a machine with 8 processors: four requests
\* are in flight and the fifth job waits.
C20_Witness ==
    /\ pool.cpu_count = 8
    /\ Cardinality(Unresolved) = 5
    /\ Cardinality(pool.running) = 4
    /\ Len(pool.queue) = 1

\* The generator passes: flow_developer_streaming and
\* flow_developer_claude4_sequential.
GeneratorPasses ==
    {p \in 1..MaxPasses : pool.passes[p].developer \in Generators}

C22_WrittenBackAsCompleted ==
    pool.phase = "passes" =>
        \A k \in 1..Len(pool.events) :
            (/\ pool.events[k].type = "agent_complete"
             /\ pool.passes[pool.events[k].pass].developer
                   = "flow_developer_claude4_sequential")
            => pool.flow.nodes[pool.events[k].node_id].agent_id = pool.events[k].agent_id

\* C23: an agent_id in the stored flow is never replaced or removed, by a
\* later pass or by one that overlaps the pass that wrote it.
C23_OneTimeMutation ==
    [][pool.phase = "passes" =>
          \A node \in 1..Len(pool.flow.nodes) :
              pool.flow.nodes[node].agent_id # ""
              => pool'.flow.nodes[node].agent_id = pool.flow.nodes[node].agent_id]_vars

\* C24: a stored flow whose status is developed has an agent_id on every
\* agent node.
C24_DevelopedIsResolved ==
    (pool.phase = "passes" /\ pool.flow.status = "developed") =>
        \A node \in 1..Len(pool.flow.nodes) :
            pool.flow.nodes[node].type = "agent" => pool.flow.nodes[node].agent_id # ""

\* C25: the stored agents_created_count, once a pass has set it, is the
\* number of agent nodes of the stored flow that carry an agent_id.
C25_CountIsResolvedNodes ==
    (pool.phase = "passes" /\ pool.flow.agents_created_count # Missing) =>
        pool.flow.agents_created_count
            = Cardinality({node \in 1..Len(pool.flow.nodes) :
                              /\ pool.flow.nodes[node].type = "agent"
                              /\ pool.flow.nodes[node].agent_id # ""})

\* C26: every success entry of an execution log records as its input the
\* data its node was invoked with: the run's input at step 1, the output of
\* the step before otherwise.
C26_LoggedInputIsInvocationData ==
    \A r \in StoredFlowIds :
        \A k \in 1..Len(Log(r)) :
            Log(r)[k].status = "success"
            => Log(r)[k].input_data = IF k = 1 THEN runs[r].input_data
                                      ELSE Log(r)[k - 1].output_data

\* Conditions of the restricted grammar (dotted-path equality, numeric
\* comparison, AND/OR) among the conditions of OracleEdges.
RestrictedGrammar == {"output.ok === true"}

\* C27: the router never calls the oracle for an edge whose condition is
\* empty or absent, nor for one whose condition is in the restricted grammar
\* that a deterministic evaluator parses.
C27_OracleOnlyForUnparseable ==
    \A k \in 1..Len(call_result) :
        \A i \in call_result[k].asked :
            LET condition == ValidEdges(route_in.edges, route_in.node)[i].condition
            IN  /\ condition.kind = "text"
                /\ condition.text \notin BlankTexts
                /\ condition.text \notin RestrictedGrammar

C29_NestedFailureContained ==
    [][\A t \in Workers :
          (/\ At(t, "await")
           /\ Top(t).ret.kind = "return"
           /\ stack'[t] # stack[t])
          => LET frame == Top(t)
                 after == stack'[t][Len(stack'[t])]
                 log == runs'[frame.run_id].execution_log
                 data == IF frame.ret.status = "failed" THEN frame.current_data
                         ELSE frame.ret.final_data
             IN  /\ Len(stack'[t]) = Len(stack[t])
                 /\ after.pc = "route"
                 /\ after.current_data = data
                 /\ runs'[frame.run_id].status = "running"
                 /\ Len(log) = Len(Log(frame.run_id)) + 1
                 /\ log[Len(log)].node_id = frame.current_node_id
                 /\ log[Len(log)].status = "success"
                 /\ log[Len(log)].output_data = data]_vars

\* The run of f_outer took the final_data of f_lin's completed run at m1 and
\* kept it over f_fail's failed run at m2.
C29_Witness ==
    /\ Len(Log("f_outer")) >= 2
    /\ runs["f_lin"].status = "completed"
    /\ runs["f_fail"].status = "failed"
    /\ Log("f_outer")[1].node_id = "m1"
    /\ Log("f_outer")[1].output_data = runs["f_lin"].final_data
    /\ runs["f_lin"].final_data # runs["f_outer"].input_data
    /\ Log("f_outer")[2].node_id = "m2"
    /\ Log("f_outer")[2].status = "success"
    /\ Log("f_outer")[2].output_data = Log("f_outer")[1].output_data
    /\ runs["f_outer"].status = "running"

\* The current node id of the innermost flow_runner call of t is the id of
\* no node of its flow.
Dangling(t) ==
    /\ Running(t)
    /\ Top(t).current_node_id # ""
    /\ ~CurrentNode(Top(t)).found

\* C30: when the current node id, an entry_point or an edge target, is the
\* id of no node, the loop is left without a log entry and without an
\* exception, and the run is then finalized completed when fewer than 20
\* iterations were counted (timeout otherwise), never failed.
C30_DanglingNeverFails ==
    [][\A t \in Workers :
          (Dangling(t) /\ stack'[t] # stack[t])
          => LET frame == Top(t) IN
             /\ frame.pc \in {"loop", "final"}
             /\ runs'[frame.run_id].execution_log = Log(frame.run_id)
             /\ (frame.pc = "loop" /\ frame.iteration < max_iterations)
                   => /\ Len(stack'[t]) = Len(stack[t])
                      /\ stack'[t][Len(stack'[t])].pc = "final"
                      /\ runs'[frame.run_id].status = "running"
             /\ frame.pc = "final"
                   => /\ runs'[frame.run_id].status
                            = IF frame.iteration < max_iterations THEN "completed"
                              ELSE "timeout"
                      /\ runs'[frame.run_id].has_final_data
                      /\ Len(stack'[t]) = Len(stack[t]) - 1]_vars

\* A run whose entry_point is no node has ended completed with an empty log,
\* and a run of f_branch that the router sent from Z to the missing node zz
\* has ended completed with Z as its last step.
C30_Witness ==
    /\ runs["f_dangling"].status = "completed"
    /\ Log("f_dangling") = <<>>
    /\ runs["f_branch"].status = "completed"
    /\ Len(Log("f_branch")) = 2
    /\ Log("f_branch")[2].node_id = "Z"

====
